---- MODULE Spec2Model ----
(***************************************************************************)
(* Model of the archive walker and the Worker state cell of                *)
(* src/src/parser.rs: process_from_zip, process_log_file, LogEntry::parse, *)
(* LogLevel::from_str, get_service_name and the Worker accessors.          *)
(***************************************************************************)
EXTENDS Integers, Sequences, FiniteSets, TLC

\* ------------------------------------------------------------------ bounds
\* Largest number of members of a top-level archive.
MaxMembers == 2
\* Largest number of members of a nested archive.
MaxInner == 2
\* Largest elapsed wall-clock time (in ticks) between `started` and Done.
MaxDuration == 1

\* ------------------------------------------------------------ option type
None == [tag |-> "None"]
Some(v) == [tag |-> "Some", val |-> v]

\* ------------------------------------------------------------- file names
\* A path is the sequence of its `/`-separated segments; a segment keeps its
\* suffix apart so that ends_with(".gz") can be decided.
Seg(stem, ext) == [stem |-> stem, ext |-> ext]

ends_with(name, ext) == name[Len(name)].ext = ext

\* The last segment whatever the number of segments.
get_service_name_last(file) == file[Len(file)]

get_service_name(file) ==
    IF Len(file) > 1 THEN file[Len(file) - 1] ELSE file[1]

\* ------------------------------------------------------------------ lines
\* A text line: `fmt` is the pattern of LogEntry::parse it matches
\* ("general", "detailed" or "other" for neither), ts/level/msg are the
\* captures, raw the whole line and len its length in bytes.
Ts(mo, ss) == [mo |-> mo, ss |-> ss]

\* dateparser::parse: the regex accepts any two digits per field, the date
\* parser only the fields of a real date.
dateparser_parse(ts) ==
    IF ts.mo \in 1..12 /\ ts.ss \in 0..59
    THEN [tag |-> "Ok", val |-> (ts.mo - 1) * 60 + ts.ss]
    ELSE [tag |-> "Err"]

\* A token is the sequence of its characters.
is_whitespace(c) == c \in {" ", "\t"}

\* str::trim: the token without its leading and trailing whitespace.
RECURSIVE trim_start(_)
trim_start(s) ==
    IF s /= <<>> /\ is_whitespace(Head(s)) THEN trim_start(Tail(s)) ELSE s
RECURSIVE trim_end(_)
trim_end(s) ==
    IF s /= <<>> /\ is_whitespace(s[Len(s)])
    THEN trim_end(SubSeq(s, 1, Len(s) - 1)) ELSE s
trim(s) == trim_end(trim_start(s))

LogLevel_from_str(s) ==
    LET t == trim(s) IN
    CASE t = <<"E", "R", "R", "O", "R">> -> "Error"
      [] t \in {<<"W", "A", "R", "N">>, <<"W", "A", "R", "N", "I", "N", "G">>} -> "Warn"
      [] t = <<"I", "N", "F", "O">> -> "Info"
      [] t = <<"D", "E", "B", "U", "G">> -> "Debug"
      [] t = <<"T", "R", "A", "C", "E">> -> "Trace"
      [] OTHER -> "Unknown"

\* LogEntry::parse: None when neither pattern matches, a panic when the
\* captured timestamp does not parse (`.expect`), Some(entry) otherwise.
LogEntry_parse(line) ==
    IF line.fmt = "other" THEN None
    ELSE LET timestamp == dateparser_parse(line.ts) IN
         IF timestamp.tag = "Err" THEN [tag |-> "Panic"]
         ELSE Some([timestamp |-> timestamp.val,
                    level |-> LogLevel_from_str(line.level),
                    component |-> None,
                    message |-> <<line.msg>>])

\* One iteration of the loop of process_log_file over `line`, from the
\* accumulator acc = [tag, entries, size].
process_line(acc, line) ==
    IF acc.tag = "Panic" THEN acc
    ELSE LET parsed == LogEntry_parse(line)
             size == acc.size + line.len
             n == Len(acc.entries) IN
         CASE parsed.tag = "Panic" -> [tag |-> "Panic", entries |-> <<>>, size |-> 0]
           [] parsed.tag = "Some" ->
                [acc EXCEPT !.entries = Append(@, parsed.val), !.size = size]
           [] OTHER ->
                IF n = 0 THEN [acc EXCEPT !.size = size]
                ELSE [acc EXCEPT !.entries[n].message = Append(@, line.raw),
                                 !.size = size]

RECURSIVE process_lines(_, _)
process_lines(acc, lines) ==
    IF lines = <<>> THEN acc
    ELSE process_lines(process_line(acc, Head(lines)), Tail(lines))

process_log_file(lines) ==
    process_lines([tag |-> "Ok", entries |-> <<>>, size |-> 0], lines)

\* ---------------------------------------------------------------- sorting
\* An insertion that puts an entry before those of its timestamp.
RECURSIVE insert_before(_, _)
insert_before(sorted, e) ==
    IF sorted = <<>> THEN <<e>>
    ELSE IF sorted[Len(sorted)].timestamp < e.timestamp THEN Append(sorted, e)
    ELSE Append(insert_before(SubSeq(sorted, 1, Len(sorted) - 1), e),
                sorted[Len(sorted)])

\* Vec::sort_by(|a, b| a.timestamp.cmp(&b.timestamp)): a stable sort.
RECURSIVE insert_sorted(_, _)
insert_sorted(sorted, e) ==
    IF sorted = <<>> THEN <<e>>
    ELSE IF sorted[Len(sorted)].timestamp <= e.timestamp THEN Append(sorted, e)
    ELSE Append(insert_sorted(SubSeq(sorted, 1, Len(sorted) - 1), e),
                sorted[Len(sorted)])

RECURSIVE sort_by_timestamp(_)
sort_by_timestamp(entries) ==
    IF entries = <<>> THEN <<>>
    ELSE insert_sorted(sort_by_timestamp(SubSeq(entries, 1, Len(entries) - 1)),
                       entries[Len(entries)])

\* The buckets published as they were filled.
sort_logbook_none(book) == book

sort_logbook(book) == [key \in DOMAIN book |-> sort_by_timestamp(book[key])]

\* logs.insert(service, entries) whether or not the bucket exists.
logbook_append_replace(book, service_name, entries) ==
    [key \in DOMAIN book \cup {service_name} |->
        IF key = service_name THEN entries ELSE book[key]]

\* logs.get_mut(service).append(entries), or logs.insert(service, entries).
logbook_append(book, service_name, entries) ==
    IF service_name \in DOMAIN book
    THEN [book EXCEPT ![service_name] = @ \o entries]
    ELSE [key \in DOMAIN book \cup {service_name} |->
            IF key = service_name THEN entries ELSE book[key]]

EmptyLogBook == [key \in {} |-> <<>>]

\* ----------------------------------------------------------------- inputs
LnTwo == [fmt |-> "detailed", ts |-> Ts(1, 2), level |-> <<"I", "N", "F", "O">>,
          msg |-> "two", raw |-> "2024-01-01T00:00:02.000000Z INFO two", len |-> 36]
LnOne == [fmt |-> "general", ts |-> Ts(1, 1), level |-> <<"W", "A", "R", "N", "I", "N", "G">>,
          msg |-> "one", raw |-> "2024-01-01 00:00:01.000 | WARNING | one", len |-> 39]
LnTie == [fmt |-> "general", ts |-> Ts(1, 1), level |-> <<"E", "R", "R", "O", "R">>,
          msg |-> "tie", raw |-> "2024-01-01 00:00:01.000 | ERROR | tie", len |-> 37]
LnBadTs == [fmt |-> "general", ts |-> Ts(13, 1), level |-> <<"E", "R", "R", "O", "R">>,
            msg |-> "bad", raw |-> "2024-13-01 00:00:01.000 | ERROR | bad", len |-> 37]
LnCont == [fmt |-> "other", ts |-> Ts(0, 0), level |-> <<>>,
           msg |-> "", raw |-> "  world", len |-> 7]
LnMore == [fmt |-> "other", ts |-> Ts(0, 0), level |-> <<>>,
           msg |-> "", raw |-> "at line 3", len |-> 9]

RECURSIVE byte_size(_)
byte_size(lines) ==
    IF lines = <<>> THEN 0 ELSE Head(lines).len + 1 + byte_size(Tail(lines))

NoZip == [ok |-> FALSE, members |-> <<>>]

\* An archive member: `fault` is "open" when by_index fails on it, "read"
\* when reading its stream fails, "none" otherwise; size is file.size().
Dir(name) == [name |-> name, is_file |-> FALSE, fault |-> "none", size |-> 0,
              lines |-> <<>>, zip |-> NoZip]
TextFile(name, lines, fault) ==
    [name |-> name, is_file |-> TRUE, fault |-> fault, size |-> byte_size(lines),
     lines |-> lines, zip |-> NoZip]
ZipFile(name, zip, fault) ==
    [name |-> name, is_file |-> TRUE, fault |-> fault, size |-> 22,
     lines |-> <<>>, zip |-> zip]

\* The member lists of at most n members over S; as in the archives a zip
\* writer produces, no two members of one archive share a name.
DistinctNames(ms) ==
    \A a, b \in 1..Len(ms) : a /= b => ms[a].name /= ms[b].name
SeqsUpTo(S, n) ==
    {ms \in UNION {[1..k -> S] : k \in 0..n} : DistinctNames(ms)}

\* An archive that opens, found two levels down.
DeepArchive ==
    [ok |-> TRUE,
     members |-> << TextFile(<<Seg("d", ""), Seg("w", "log")>>, <<LnOne>>, "none") >>]

InnerMembers ==
    { TextFile(<<Seg("c", ""), Seg("d", "log")>>, <<LnTwo, LnOne>>, "none"),
      TextFile(<<Seg("c", ""), Seg("k", "log")>>, <<LnOne>>, "open"),
      TextFile(<<Seg("r", "gz")>>, <<LnOne>>, "read"),
      ZipFile(<<Seg("c", ""), Seg("deep", "zip")>>, DeepArchive, "none") }

InnerArchives ==
    {NoZip} \cup {[ok |-> TRUE, members |-> ms] : ms \in SeqsUpTo(InnerMembers, MaxInner)}

TopMembers ==
    { Dir(<<Seg("a", ""), Seg("", "")>>),
      TextFile(<<Seg("a", ""), Seg("x", "log")>>, <<LnTwo, LnTie, LnOne>>, "none"),
      TextFile(<<Seg("a", ""), Seg("y", "gz")>>, <<LnCont, LnOne, LnCont, LnMore>>, "none"),
      TextFile(<<Seg("b", ""), Seg("z", "log")>>, <<LnOne, LnBadTs, LnTwo>>, "none"),
      TextFile(<<Seg("a", ""), Seg("k", "log")>>, <<LnOne>>, "open"),
      TextFile(<<Seg("b", ""), Seg("r", "gz")>>, <<LnOne>>, "read"),
      TextFile(<<Seg("n", "txt")>>, <<LnOne>>, "none"),
      TextFile(<<Seg("a", ""), Seg("e", "log")>>, <<>>, "none"),
      ZipFile(<<Seg("c", ""), Seg("r", "zip")>>, NoZip, "read") }
    \cup {ZipFile(<<Seg("c", ""), Seg("in", "zip")>>, z, "none") : z \in InnerArchives}

\* The buffers handed to process_from_zip: one that is no zip archive, and
\* the archives of at most MaxMembers members.
Buffers ==
    {NoZip} \cup {[ok |-> TRUE, members |-> ms] : ms \in SeqsUpTo(TopMembers, MaxMembers)}

NoData == [ok |-> FALSE, members |-> <<>>, none |-> TRUE]

\* ------------------------------------------------------------------ state
VARIABLES
    data,       \* the buffer moved into the spawned task
    state,      \* Worker.state: the Arc<Mutex<ProcessingState>> cell
    pc,         \* position of the spawned task
    i,          \* index of the outer loop (0-based)
    u,          \* index of the inner loop (0-based)
    logs,       \* the task's LogBook under construction
    file_size,  \* the task's cumulative size
    polled,     \* what the caller's last poll returned
    allowed_services,  \* the allow-list handed over with the buffer
    arg,        \* the argument of a function called on its own
    ret,        \* what that call returned
    app,        \* the TemplateApp: worker, logs, is_processing, open_model
    parked,     \* the tasks (and cells) of the other runs started, by run
    run         \* the run whose task and cell the variables above hold

vars == <<data, state, pc, i, u, logs, file_size, polled, allowed_services, arg, ret,
          app, parked, run>>

\* ProcessingState
StateNone == [tag |-> "None"]
StateProcessing(info) == [tag |-> "Processing", info |-> info]
StateDone(p) == [tag |-> "Done", processed |-> p]

\* A percentage is kept as the exact fraction num / den.
Percentage(num, den) == [num |-> num, den |-> den]
PctLeq(p, q) == p.num * q.den <= q.num * p.den

\* The members counted from one.
outer_percentage_next(idx, size) == Percentage(100 * (idx + 1), size)

\* 100.0 * i / size
outer_percentage(idx, size) == Percentage(100 * idx, size)
\* A 1-based outer index in the blended fraction.
inner_percentage_next(idx, udx, size_u, size) ==
    Percentage(100 * ((idx + 1) * size_u + udx), size_u * size)
\* 100.0 * (i + u / size_u) / size
inner_percentage(idx, udx, size_u, size) ==
    Percentage(100 * (idx * size_u + udx), size_u * size)

\* Processed::default()
DefaultProcessed == [logbook |-> EmptyLogBook, size |-> 0, duration |-> 0]

\* TemplateApp::default(): worker 0 is the Worker::default() it starts with.
TemplateApp_default ==
    [worker |-> 0, logs |-> DefaultProcessed, is_processing |-> FALSE,
     open_model |-> FALSE]

NoRuns == [w \in {} |-> 0]

\* Worker accessors
Worker_logs(s) == IF s.tag = "Done" THEN Some(s.processed.logbook) ELSE None
Worker_processed(s) == IF s.tag = "Done" THEN Some(s.processed) ELSE None
\* info() answering in every state but None.
Worker_info_any(s) ==
    CASE s.tag = "Processing" -> Some(s.info)
      [] s.tag = "Done" -> Some([service_name |-> Seg("", ""),
                                 percentage |-> Percentage(100, 1),
                                 size |-> s.processed.size,
                                 file |-> <<>>])
      [] OTHER -> None
Worker_info(s) == IF s.tag = "Processing" THEN Some(s.info) ELSE None

Init ==
    /\ data = NoData
    /\ state = StateNone
    /\ pc = "init"
    /\ i = 0
    /\ u = 0
    /\ logs = EmptyLogBook
    /\ file_size = 0
    /\ polled = [op |-> "none", result |-> None]
    /\ allowed_services = {}
    /\ arg = None
    /\ ret = None
    /\ app = TemplateApp_default
    /\ parked = NoRuns
    /\ run = 0

\* ------------------------------------------------------- process_from_zip
\* The call itself: Worker::default(), tokio::spawn of the task, return.
process_from_zip ==
    /\ pc = "init"
    /\ \E d \in Buffers : data' = d
    /\ state' = StateNone
    /\ pc' = "spawned"
    /\ UNCHANGED <<app, parked, run, i, u, logs, file_size, polled, allowed_services, arg, ret>>

\* A panic of the spawned task (a failed unwrap/expect): the task ends where
\* it is; no lock is held, so the cell keeps its last value.
Panic ==
    /\ pc' = "panicked"
    /\ UNCHANGED <<app, parked, run, allowed_services, arg, ret, data, state, i, u, logs, file_size, polled>>

\* reader.lines().filter_map(|line| line.ok()) over a reader that keeps
\* returning an error never ends.
Hang ==
    /\ pc' = "hung"
    /\ UNCHANGED <<app, parked, run, allowed_services, arg, ret, data, state, i, u, logs, file_size, polled>>

\* The open error swallowed: the buffer walked as an archive of no members.
OpenArchiveLenient ==
    /\ pc = "spawned"
    /\ pc' = "outer"
    /\ i' = 0
    /\ u' = 0
    /\ logs' = EmptyLogBook
    /\ file_size' = 0
    /\ UNCHANGED <<app, parked, run, allowed_services, arg, ret, data, state, polled>>

\* zip::ZipArchive::new(reader).unwrap() and the locals of the task.
OpenArchive ==
    /\ pc = "spawned"
    /\ IF data.ok
       THEN /\ pc' = "outer"
            /\ i' = 0
            /\ u' = 0
            /\ logs' = EmptyLogBook
            /\ file_size' = 0
            /\ UNCHANGED <<app, parked, run, allowed_services, arg, ret, data, state, polled>>
       ELSE Panic

size == Len(data.members)
outer_file == data.members[i + 1]
size_u == Len(outer_file.zip.members)
inner_file == outer_file.zip.members[u + 1]

\* Every suffix taken for a log's.
is_log_any(file) == TRUE

is_log(file) == ends_with(file.name, "gz") \/ ends_with(file.name, "log")

\* `continue` of the outer loop: the next top-level member, no snapshot.
ContinueOuter ==
    /\ i' = i + 1
    /\ u' = 0
    /\ pc' = "outer"
    /\ UNCHANGED <<app, parked, run, allowed_services, arg, ret, data, state, logs, file_size, polled>>

\* The end of one iteration of the inner loop: the next inner member, or
\* the `continue` of the outer loop after the last one.
NextInner ==
    IF u + 1 < size_u
    THEN /\ u' = u + 1
         /\ pc' = "inner"
         /\ i' = i
    ELSE /\ u' = 0
         /\ pc' = "outer"
         /\ i' = i + 1

\* The nested open unwrapped like the top-level one.
NestedOpenErrorPanics == Panic

\* The Err arm of the match on the nested ZipArchive::new: log and continue.
NestedOpenError == ContinueOuter

\* The scan of a member threading the entries already in its service's
\* bucket instead of a list of its own.
OuterCollectShared(file, processed) ==
    LET service_name == get_service_name(file.name)
        before == IF service_name \in DOMAIN logs THEN logs[service_name] ELSE <<>>
        scanned == process_lines([tag |-> "Ok", entries |-> before, size |-> 0],
                                 file.lines)
    IN IF processed.tag = "Panic" THEN Panic
       ELSE /\ file_size' = file_size + processed.size
            /\ logs' = [key \in DOMAIN logs \cup {service_name} |->
                          IF key = service_name THEN scanned.entries ELSE logs[key]]
            /\ state' = StateProcessing([service_name |-> service_name,
                                         percentage |-> outer_percentage(i, size),
                                         size |-> file_size + processed.size,
                                         file |-> file.name])
            /\ i' = i + 1
            /\ UNCHANGED <<app, parked, run, allowed_services, arg, ret, data, pc, u, polled>>

\* Lines 288-301: unwrap the scan, add to the LogBook, publish the snapshot.
OuterCollect(file, processed) ==
    IF processed.tag = "Panic" THEN Panic
    ELSE /\ file_size' = file_size + processed.size
         /\ logs' = logbook_append(logs, get_service_name(file.name), processed.entries)
         /\ state' = StateProcessing([service_name |-> get_service_name(file.name),
                                      percentage |-> outer_percentage(i, size),
                                      size |-> file_size + processed.size,
                                      file |-> file.name])
         /\ i' = i + 1
         /\ UNCHANGED <<app, parked, run, allowed_services, arg, ret, data, pc, u, polled>>

\* Lines 296-301 for a member of size 0: the snapshot alone.
OuterSkipEmpty(file) == ContinueOuter

OuterPublishOnly(file) ==
    /\ state' = StateProcessing([service_name |-> get_service_name(file.name),
                                 percentage |-> outer_percentage(i, size),
                                 size |-> file_size,
                                 file |-> file.name])
    /\ i' = i + 1
    /\ UNCHANGED <<app, parked, run, allowed_services, arg, ret, data, pc, u, logs, file_size, polled>>

\* Lines 230-241: read the nested archive and open it.
OuterZip(file) ==
    IF file.fault = "read" THEN Panic                 \* read_to_end(..).unwrap()
    ELSE IF ~file.zip.ok THEN NestedOpenError
    ELSE IF Len(file.zip.members) = 0 THEN ContinueOuter
    ELSE /\ pc' = "inner"
         /\ u' = 0
         /\ UNCHANGED <<app, parked, run, allowed_services, arg, ret, data, state, i, logs, file_size, polled>>

\* Lines 224-229: scan a .gz/.log member; a stream that fails mid-read either
\* keeps failing (the scan never returns) or ends after the lines read.
OuterText(file) ==
    \/ /\ file.fault = "read"
       /\ Hang
    \/ OuterCollect(file, process_log_file(file.lines))

\* One iteration of `for i in 0..size`.
OuterStep ==
    /\ pc = "outer"
    /\ i < size
    /\ LET file == outer_file IN
       IF file.fault = "open" THEN Panic              \* by_index(i).unwrap()
       ELSE IF ~file.is_file THEN ContinueOuter
       ELSE IF file.size = 0 THEN OuterPublishOnly(file)
       ELSE IF is_log(file) THEN OuterText(file)
       ELSE IF ends_with(file.name, "zip") THEN OuterZip(file)
       ELSE ContinueOuter

\* The snapshot published with the size of the write before it.
InnerCollectTorn(file, processed) ==
    IF processed.tag = "Panic" THEN Panic
    ELSE /\ file_size' = file_size + processed.size
         /\ logs' = logbook_append(logs, get_service_name(file.name), processed.entries)
         /\ state' = StateProcessing([service_name |-> get_service_name(file.name),
                                      percentage |-> inner_percentage(i, u, size_u, size),
                                      size |-> file_size,
                                      file |-> file.name])
         /\ NextInner
         /\ UNCHANGED <<app, parked, run, allowed_services, arg, ret, data, polled>>

\* Lines 260-276: unwrap the scan, add to the LogBook, publish the snapshot.
InnerCollect(file, processed) ==
    IF processed.tag = "Panic" THEN Panic
    ELSE /\ file_size' = file_size + processed.size
         /\ logs' = logbook_append(logs, get_service_name(file.name), processed.entries)
         /\ state' = StateProcessing([service_name |-> get_service_name(file.name),
                                      percentage |-> inner_percentage(i, u, size_u, size),
                                      size |-> file_size + processed.size,
                                      file |-> file.name])
         /\ NextInner
         /\ UNCHANGED <<app, parked, run, allowed_services, arg, ret, data, polled>>

InnerSkip ==
    /\ NextInner
    /\ UNCHANGED <<app, parked, run, allowed_services, arg, ret, data, state, logs, file_size, polled>>

InnerText(file) ==
    \/ /\ file.fault = "read"
       /\ Hang
    \/ InnerCollect(file, process_log_file(file.lines))

\* One iteration of `for u in 0..size_u`.
InnerStep ==
    /\ pc = "inner"
    /\ u < size_u
    /\ LET file == inner_file IN
       IF file.fault = "open" THEN Panic              \* by_index(u).unwrap()
       ELSE IF ~file.is_file THEN InnerSkip
       ELSE IF file.size = 0 THEN InnerSkip
       ELSE IF is_log(file) THEN InnerText(file)
       ELSE InnerSkip

\* Done published without leaving the loop, so that it is published again.
FinishAgain ==
    /\ pc = "outer"
    /\ i = size
    /\ \E duration \in 0..MaxDuration :
         state' = StateDone([logbook |-> sort_logbook(logs),
                             size |-> file_size,
                             duration |-> duration])
    /\ UNCHANGED <<app, parked, run, allowed_services, arg, ret, data, pc, i, u, logs, file_size, polled>>

\* Done published with the last top-level member still to come.
FinishEarly ==
    /\ pc = "outer"
    /\ i + 1 >= size
    /\ \E duration \in 0..MaxDuration :
         state' = StateDone([logbook |-> sort_logbook(logs),
                             size |-> file_size,
                             duration |-> duration])
    /\ pc' = "done"
    /\ UNCHANGED <<app, parked, run, allowed_services, arg, ret, data, i, u, logs, file_size, polled>>

\* Lines 307-319: sort every bucket and publish Done.
Finish ==
    /\ pc = "outer"
    /\ i = size
    /\ \E duration \in 0..MaxDuration :
         state' = StateDone([logbook |-> sort_logbook(logs),
                             size |-> file_size,
                             duration |-> duration])
    /\ pc' = "done"
    /\ UNCHANGED <<app, parked, run, allowed_services, arg, ret, data, i, u, logs, file_size, polled>>

\* ------------------------------------------------------------ the caller
PollInfo ==
    /\ pc /= "init"
    /\ polled' = [op |-> "info", result |-> Worker_info(state)]
    /\ UNCHANGED <<app, parked, run, allowed_services, arg, ret, data, state, pc, i, u, logs, file_size>>

\* processed() taking the result out of the cell (std::mem::take).
PollProcessedTake ==
    /\ pc /= "init"
    /\ polled' = [op |-> "processed", result |-> Worker_processed(state)]
    /\ state' = IF state.tag = "Done" THEN StateNone ELSE state
    /\ UNCHANGED <<app, parked, run, allowed_services, arg, ret, data, pc, i, u, logs, file_size>>

PollProcessed ==
    /\ pc /= "init"
    /\ polled' = [op |-> "processed", result |-> Worker_processed(state)]
    /\ UNCHANGED <<app, parked, run, allowed_services, arg, ret, data, state, pc, i, u, logs, file_size>>

\* logs() moving the LogBook out of the cell.
PollLogsTake ==
    /\ pc /= "init"
    /\ polled' = [op |-> "logs", result |-> Worker_logs(state)]
    /\ state' = IF state.tag = "Done" THEN StateNone ELSE state
    /\ UNCHANGED <<app, parked, run, allowed_services, arg, ret, data, pc, i, u, logs, file_size>>

PollLogs ==
    /\ pc /= "init"
    /\ polled' = [op |-> "logs", result |-> Worker_logs(state)]
    /\ UNCHANGED <<app, parked, run, allowed_services, arg, ret, data, state, pc, i, u, logs, file_size>>

Next ==
    \/ process_from_zip
    \/ OpenArchive
    \/ OuterStep
    \/ InnerStep
    \/ Finish
    \/ PollInfo
    \/ PollProcessed
    \/ PollLogs

Spec == Init /\ [][Next]_vars

\* --------------------------------------------------- Worker::process
\* The file names Worker::process is called with.
ProcessFiles == {<<Seg("a", ""), Seg("x", "log")>>, <<Seg("n", "txt")>>}

\* The match of Worker::process without its `_ => {}` arm: the cell written
\* whatever it holds.
Worker_process_always(file) ==
    /\ arg = None
    /\ arg' = Some(file)
    /\ state' = StateProcessing([service_name |-> file[1],
                                 percentage |-> Percentage(0, 1),
                                 size |-> 0,
                                 file |-> file])
    /\ UNCHANGED <<app, parked, run, allowed_services, ret, data, pc, i, u, logs, file_size, polled>>

\* Worker::process(file), called once at any moment of a run.
Worker_process(file) ==
    /\ arg = None
    /\ arg' = Some(file)
    /\ state' = IF state.tag = "None"
                THEN StateProcessing([service_name |-> file[1],
                                      percentage |-> Percentage(0, 1),
                                      size |-> 0,
                                      file |-> file])
                ELSE state
    /\ UNCHANGED <<app, parked, run, allowed_services, ret, data, pc, i, u, logs, file_size, polled>>

process == \E file \in ProcessFiles : Worker_process(file)

NextProcess == Next \/ process

SpecProcess == Init /\ [][NextProcess]_vars

\* ------------------------------------------------- TemplateApp::update
\* Largest number of runs started.
MaxRuns == 2

\* The files the user picks: an archive of one log, an archive holding a
\* nested archive of one log, and a file that is no archive.
AppBuffers ==
    { [ok |-> TRUE,
       members |-> << TextFile(<<Seg("a", ""), Seg("x", "log")>>,
                               <<LnTwo, LnTie, LnOne>>, "none") >>],
      [ok |-> TRUE,
       members |-> << ZipFile(<<Seg("c", ""), Seg("in", "zip")>>,
                              [ok |-> TRUE,
                               members |-> << TextFile(<<Seg("c", ""), Seg("d", "log")>>,
                                                       <<LnTwo, LnOne>>, "none") >>],
                              "none") >>],
      NoZip }

\* The runs started so far.
Runs == DOMAIN parked \cup (IF run = 0 THEN {} ELSE {run})

\* The task of run w with the cell of the Worker its call returned.
Task ==
    [data |-> data, state |-> state, pc |-> pc, i |-> i, u |-> u, logs |-> logs,
     file_size |-> file_size]
TaskOf(w) == IF w = run THEN Task ELSE parked[w]

\* The cell of the Worker the app holds.
Worker_state(w) == IF w = 0 THEN StateNone ELSE TaskOf(w).state

\* parser::process_from_zip(data) called from update: a Worker of its own,
\* the task spawned; the tasks of the earlier runs go on.
Spawn(d) ==
    /\ Cardinality(Runs) < MaxRuns
    /\ parked' = [w \in Runs |-> TaskOf(w)]
    /\ run' = Cardinality(Runs) + 1
    /\ data' = d
    /\ state' = StateNone
    /\ pc' = "spawned"
    /\ i' = 0
    /\ u' = 0
    /\ logs' = EmptyLogBook
    /\ file_size' = 0

\* One frame of TemplateApp::update with at most one button clicked: the
\* modal's buttons, the File menu, the status label, the services panel.
update(click, picked) ==
    LET loaded == click = "load" /\ picked.tag = "Some"
        worker == IF loaded THEN Cardinality(Runs) + 1 ELSE app.worker
        cell == IF loaded THEN StateNone ELSE Worker_state(app.worker)
        open_model == CASE click = "select" -> TRUE
                        [] click \in {"load", "close"} -> FALSE
                        [] OTHER -> app.open_model
        cleared == IF click = "select" THEN DefaultProcessed ELSE app.logs
        is_processing == click = "select" \/ app.is_processing
        adopted == cleared.logbook = EmptyLogBook /\ Worker_processed(cell).tag = "Some"
    IN /\ click \in {"load", "close"} => app.open_model
       /\ click = "select" => ~app.open_model
       /\ IF loaded THEN Spawn(picked.val)
          ELSE UNCHANGED <<data, state, pc, i, u, logs, file_size, parked, run>>
       /\ app' = [worker |-> worker,
                  logs |-> IF adopted THEN Worker_processed(cell).val ELSE cleared,
                  is_processing |-> is_processing /\ ~adopted,
                  open_model |-> open_model]
       /\ polled' = [op |-> "update",
                     worker |-> worker,
                     info |-> IF is_processing THEN Worker_info(cell) ELSE None,
                     result |-> IF cleared.logbook = EmptyLogBook
                                THEN Worker_processed(cell) ELSE None]
       /\ UNCHANGED <<allowed_services, arg, ret>>

frame ==
    \E click \in {"none", "select", "load", "close"} :
        \E picked \in {None} \cup {Some(d) : d \in AppBuffers} :
            update(click, picked)

\* The two tasks handed one cell: the cell stays when the scheduler turns
\* to the other task.
SwitchSharedCell(w) ==
    /\ w \in DOMAIN parked
    /\ parked' = [v \in (DOMAIN parked \ {w}) \cup {run} |-> TaskOf(v)]
    /\ run' = w
    /\ data' = parked[w].data
    /\ state' = state
    /\ pc' = parked[w].pc
    /\ i' = parked[w].i
    /\ u' = parked[w].u
    /\ logs' = parked[w].logs
    /\ file_size' = parked[w].file_size
    /\ UNCHANGED <<app, polled, allowed_services, arg, ret>>

\* The scheduler turns to the task of run w: the spawned tasks run
\* independently of one another and of the caller.
Switch(w) ==
    /\ w \in DOMAIN parked
    /\ parked' = [v \in (DOMAIN parked \ {w}) \cup {run} |-> TaskOf(v)]
    /\ run' = w
    /\ data' = parked[w].data
    /\ state' = parked[w].state
    /\ pc' = parked[w].pc
    /\ i' = parked[w].i
    /\ u' = parked[w].u
    /\ logs' = parked[w].logs
    /\ file_size' = parked[w].file_size
    /\ UNCHANGED <<app, polled, allowed_services, arg, ret>>

schedule == \E w \in 1..MaxRuns : Switch(w)

NextApp ==
    \/ frame
    \/ schedule
    \/ OpenArchive
    \/ OuterStep
    \/ InnerStep
    \/ Finish

SpecApp == Init /\ [][NextApp]_vars

\* ---------------------------------------------------- LogEntry::parse alone
\* Largest number of characters of a message.
MaxMessage == 3

\* A line of text: its timestamp (`zulu` when it is written with T, six
\* sub-second digits and Z, the form both patterns accept; otherwise the form
\* REGEX_GENERAL alone accepts) and the characters after the timestamp.
TextLine(zulu, ts, text) == [zulu |-> zulu, ts |-> ts, text |-> text]

\* The length of the longest prefix of s without whitespace.
RECURSIVE non_space_prefix(_)
non_space_prefix(s) ==
    IF s = <<>> \/ is_whitespace(Head(s)) THEN 0 ELSE 1 + non_space_prefix(Tail(s))

\* `\s*(.+)$` on s: the whitespace skipped as far as one character is
\* left for the message; no match on the empty string.
message_capture(s) ==
    IF s = <<>> THEN None
    ELSE IF trim_start(s) = <<>> THEN Some(<<s[Len(s)]>>)
    ELSE Some(trim_start(s))

\* `(\S+)\s*\|\s*(.+)$` on s with the level k characters long.
general_tail(s, k) ==
    LET after == trim_start(SubSeq(s, k + 1, Len(s))) IN
    IF after = <<>> \/ Head(after) /= "|" THEN None
    ELSE message_capture(Tail(after))

\* REGEX_GENERAL.captures(line): the greedy `\S+` gives back characters
\* until the rest of the pattern matches.
regex_general_captures(line) ==
    LET start == trim_start(line.text) IN
    IF start = <<>> \/ Head(start) /= "|" THEN None
    ELSE LET s == trim_start(Tail(start))
             fits == {k \in 1..non_space_prefix(s) : general_tail(s, k).tag = "Some"}
         IN IF fits = {} THEN None
            ELSE LET k == CHOOSE n \in fits : \A m \in fits : m <= n
                 IN Some([fmt |-> "general", ts |-> line.ts,
                          level |-> SubSeq(s, 1, k),
                          msg |-> general_tail(s, k).val])

\* REGEX_DETAILED.captures(line): `\s+(\S+)\s+(.+)$` after a timestamp
\* of the detailed form.
regex_detailed_captures(line) ==
    IF ~line.zulu \/ line.text = <<>> \/ ~is_whitespace(Head(line.text)) THEN None
    ELSE LET s == trim_start(line.text)
             k == non_space_prefix(s)
             after == SubSeq(s, k + 1, Len(s))
         IN IF k = 0 \/ Len(after) < 2 THEN None
            ELSE Some([fmt |-> "detailed", ts |-> line.ts,
                       level |-> SubSeq(s, 1, k),
                       msg |-> message_capture(Tail(after)).val])

\* regex_general.captures(line).or_else(|| regex_detailed.captures(line))
captures(line) ==
    IF regex_general_captures(line).tag = "Some" THEN regex_general_captures(line).val
    ELSE IF regex_detailed_captures(line).tag = "Some" THEN regex_detailed_captures(line).val
    ELSE [fmt |-> "other", ts |-> line.ts, level |-> <<>>, msg |-> <<>>]

\* The delimiters of the two layouts, the level names and the messages the
\* lines are built from; a message starts with a character that is not
\* whitespace.
GeneralDelimiters == {<<"|">>, <<" ", "|">>, <<"|", " ">>, <<" ", "|", " ">>}
DetailedDelimiters == {<<" ">>, <<" ", " ">>}
ParseLevels == {<<"I", "N", "F", "O">>, <<"E", "R", "R", "O", "R">>}
Messages ==
    {m \in UNION {[1..n -> {"a", " ", "|"}] : n \in 1..MaxMessage} : ~is_whitespace(m[1])}

\* The lines handed to LogEntry::parse: TIMESTAMP | LEVEL | MESSAGE and
\* TIMESTAMP LEVEL MESSAGE with a timestamp that parses.
ParseLines ==
    {TextLine(zulu, Ts(1, 1), first \o level \o second \o message) :
        zulu \in BOOLEAN, first \in {<<"|">>, <<" ", "|", " ">>},
        level \in ParseLevels, second \in GeneralDelimiters, message \in Messages}
    \cup
    {TextLine(TRUE, Ts(1, 2), first \o level \o second \o message) :
        first \in DetailedDelimiters, level \in ParseLevels,
        second \in DetailedDelimiters, message \in Messages}

InitParse ==
    /\ data = NoData
    /\ state = StateNone
    /\ pc = "init"
    /\ i = 0
    /\ u = 0
    /\ logs = EmptyLogBook
    /\ file_size = 0
    /\ polled = [op |-> "none", result |-> None]
    /\ allowed_services = {}
    /\ arg \in {Some(line) : line \in ParseLines}
    /\ ret = None
    /\ app = TemplateApp_default
    /\ parked = NoRuns
    /\ run = 0

\* The call LogEntry::parse(&line).
parse ==
    /\ arg.tag = "Some"
    /\ ret = None
    /\ ret' = Some(LogEntry_parse(captures(arg.val)))
    /\ UNCHANGED <<app, parked, run, data, state, pc, i, u, logs, file_size, polled, allowed_services, arg>>

SpecParse == InitParse /\ [][parse]_vars

\* ------------------------------------------------ LogLevel::from_str alone
\* The upper-case spellings the tokens are drawn from: the six level names
\* and two that name no level.
LevelWords ==
    {<<"E", "R", "R", "O", "R">>, <<"W", "A", "R", "N">>, <<"W", "A", "R", "N", "I", "N", "G">>, <<"I", "N", "F", "O">>, <<"D", "E", "B", "U", "G">>, <<"T", "R", "A", "C", "E">>, <<"F", "A", "T", "A", "L">>, <<"I", "N", "F">>}

to_ascii_lowercase(c) ==
    CASE c = "A" -> "a" [] c = "B" -> "b" [] c = "C" -> "c" [] c = "D" -> "d"
      [] c = "E" -> "e" [] c = "F" -> "f" [] c = "G" -> "g" [] c = "I" -> "i"
      [] c = "N" -> "n" [] c = "O" -> "o" [] c = "R" -> "r" [] c = "T" -> "t"
      [] c = "U" -> "u" [] c = "W" -> "w" [] OTHER -> c

\* Every spelling of a word in upper and lower case letters.
CaseVariants(word) ==
    {[k \in 1..Len(word) |-> IF k \in low THEN to_ascii_lowercase(word[k]) ELSE word[k]] :
        low \in SUBSET (1..Len(word))}

\* The tokens handed to LogLevel::from_str: every spelling of every word,
\* bare or with whitespace around it.
LevelTokens ==
    {before \o spelling \o after :
        before \in {<<>>, <<" ">>},
        spelling \in UNION {CaseVariants(word) : word \in LevelWords},
        after \in {<<>>, <<"\t">>}}

InitLevel ==
    /\ data = NoData
    /\ state = StateNone
    /\ pc = "init"
    /\ i = 0
    /\ u = 0
    /\ logs = EmptyLogBook
    /\ file_size = 0
    /\ polled = [op |-> "none", result |-> None]
    /\ allowed_services = {}
    /\ arg \in {Some(token) : token \in LevelTokens}
    /\ ret = None
    /\ app = TemplateApp_default
    /\ parked = NoRuns
    /\ run = 0

\* The call LogLevel::from_str(&caps["level"]).
from_str ==
    /\ arg.tag = "Some"
    /\ ret = None
    /\ ret' = Some(LogLevel_from_str(arg.val))
    /\ UNCHANGED <<app, parked, run, data, state, pc, i, u, logs, file_size, polled, allowed_services, arg>>

SpecLevel == InitLevel /\ [][from_str]_vars

\* ------------------------------------------------- the run with an allow-list
\* The allow-lists the caller builds from its checked service names.
AllowLists == SUBSET {Seg("a", ""), Seg("c", "")}

\* The call of TemplateApp::update: the buffer and the checked service names.
process_from_zip_allowed ==
    /\ pc = "init"
    /\ \E d \in Buffers : data' = d
    /\ \E allowed \in AllowLists : allowed_services' = allowed
    /\ state' = StateNone
    /\ pc' = "spawned"
    /\ UNCHANGED <<app, parked, run, i, u, logs, file_size, polled, arg, ret>>

\* An allow-list that lets every service through.
service_allowed_all(service_name) == TRUE

\* An empty allow-list filters nothing; otherwise the name must be in it.
service_allowed(service_name) ==
    allowed_services = {} \/ service_name \in allowed_services

\* One iteration of the outer loop: a file member whose service is not
\* allowed is skipped, any other member is handled as OuterStep handles it.
FilteredOuterStep ==
    /\ pc = "outer"
    /\ i < size
    /\ IF /\ outer_file.fault /= "open"
          /\ outer_file.is_file
          /\ ~service_allowed(get_service_name(outer_file.name))
       THEN ContinueOuter
       ELSE OuterStep

\* One iteration of the inner loop, filtered in the same way.
FilteredInnerStep ==
    /\ pc = "inner"
    /\ u < size_u
    /\ IF /\ inner_file.fault /= "open"
          /\ inner_file.is_file
          /\ ~service_allowed(get_service_name(inner_file.name))
       THEN InnerSkip
       ELSE InnerStep

NextAllow ==
    \/ process_from_zip_allowed
    \/ OpenArchive
    \/ FilteredOuterStep
    \/ FilteredInnerStep
    \/ Finish
    \/ PollLogs

SpecAllow == Init /\ [][NextAllow]_vars

\* ================================================================ claims

\* C1: the state tag only moves forward along None (Idle) -> Processing ->
\* Done: no step writes a Processing snapshot over Done, and no step brings
\* the cell back to None once it has left it.
C1_ForwardOnly ==
    [][/\ (state.tag = "Done" => state'.tag = "Done")
       /\ (state.tag /= "None" => state'.tag /= "None")]_vars

\* A Done cell whose run published a snapshot the caller has seen.
C1_Witness ==
    /\ state.tag = "Done"
    /\ polled.op = "info"
    /\ polled.result.tag = "Some"

\* C2: once the cell holds Done(p) no step writes it again, and what
\* processed() and logs() returned as Some is the p the cell still holds.
C2_IdempotentTerminality ==
    /\ [][state.tag = "Done" => state' = state]_vars
    /\ [](polled.op = "processed" /\ polled.result.tag = "Some"
            => polled.result = Worker_processed(state))
    /\ [](polled.op = "logs" /\ polled.result.tag = "Some"
            => polled.result = Worker_logs(state))

C2_Witness ==
    /\ pc = "done"
    /\ polled.op = "processed"
    /\ polled.result = Some(state.processed)
    /\ DOMAIN state.processed.logbook /= {}

\* C3: right after process_from_zip returns, before the task has written,
\* the cell holds Processing with percentage 0 and size 0 and info() is Some.
C3_StartsProcessing ==
    pc = "spawned" =>
        /\ state.tag = "Processing"
        /\ state.info.percentage.num = 0
        /\ state.info.size = 0
        /\ Worker_info(state).tag = "Some"

\* C4: info() is Some exactly in Processing, processed() and logs() are Some
\* exactly in Done, so info() and processed() are never both Some.
C4_AccessorsMatchTag ==
    /\ Worker_info(state).tag = "Some" <=> state.tag = "Processing"
    /\ Worker_processed(state).tag = "Some" <=> state.tag = "Done"
    /\ Worker_logs(state).tag = "Some" <=> state.tag = "Done"
    /\ ~(Worker_info(state).tag = "Some" /\ Worker_processed(state).tag = "Some")

C4_Witness ==
    /\ state.tag = "Done"
    /\ polled.op = "info"
    /\ polled.result = None
    /\ Worker_processed(state).tag = "Some"

\* C5: a run on a buffer that opens as a zip archive never gets into a
\* state from which Done cannot be reached (the task neither panics nor
\* hangs), whatever the members contain.
C5_RunsToCompletion ==
    (pc /= "init" /\ data.ok) => pc \notin {"panicked", "hung"}

\* C6: from one Processing snapshot to the next, top-level and nested
\* members interleaved, the percentage never decreases.
C6_PercentageMonotone ==
    [][(state.tag = "Processing" /\ state'.tag = "Processing")
         => PctLeq(state.info.percentage, state'.info.percentage)]_vars

\* The caller holds a snapshot of a nested member and the cell a later one
\* of a strictly larger percentage.
C6_Witness ==
    /\ state.tag = "Processing"
    /\ polled.op = "info"
    /\ polled.result.tag = "Some"
    /\ polled.result.val.file[Len(polled.result.val.file)].stem = "d"
    /\ polled.result.val.percentage.num > 0
    /\ ~PctLeq(state.info.percentage, polled.result.val.percentage)

\* What the caller can learn from a Worker by polling it.
CallerView(s) == <<Worker_info(s), Worker_processed(s), Worker_logs(s)>>

\* C7 as stated: a buffer that is no zip archive aborts the run with no
\* member processed and no Done, and polling shows the caller the failure.
C7_ErrorSurfaced ==
    (pc = "panicked" /\ ~data.ok) =>
        /\ state.tag /= "Done"
        /\ logs = EmptyLogBook
        /\ CallerView(state) /= CallerView(StateNone)

\* C7 as amended: a buffer that is no zip archive makes the task panic at
\* the open: no member is processed, the cell stays None for ever, and
\* every poll of the run, before and after the panic, returns None.
C7_OpenFailureAborts ==
    (pc /= "init" /\ ~data.ok) =>
        /\ pc \in {"spawned", "panicked"}
        /\ state = StateNone
        /\ i = 0 /\ logs = EmptyLogBook /\ file_size = 0
        /\ CallerView(state) = <<None, None, None>>
        /\ polled.result = None

C7_Witness ==
    /\ pc = "panicked"
    /\ ~data.ok
    /\ polled.op = "processed"

\* A top-level .zip member that reads but does not open as an archive.
BadNestedZip(file) ==
    /\ file.is_file
    /\ file.fault = "none"
    /\ file.size > 0
    /\ ends_with(file.name, "zip")
    /\ ~file.zip.ok

\* The members that are line-scanned, in processing order.
RECURSIVE ScannedMembers(_)
ScannedMembers(members) ==
    IF members = <<>> THEN <<>>
    ELSE LET file == Head(members)
             own == IF ~file.is_file \/ file.size = 0 THEN <<>>
                    ELSE IF is_log(file) THEN <<file>>
                    ELSE IF ends_with(file.name, "zip") /\ file.zip.ok
                         THEN SelectSeq(file.zip.members,
                                        LAMBDA m : m.is_file /\ m.size > 0 /\ is_log(m))
                    ELSE <<>>
         IN own \o ScannedMembers(Tail(members))

RECURSIVE CollectAll(_, _)
CollectAll(book, files) ==
    IF files = <<>> THEN book
    ELSE CollectAll(logbook_append(book, get_service_name(Head(files).name),
                                   process_log_file(Head(files).lines).entries),
                    Tail(files))

\* The LogBook of a run over `members` that reaches Done.
ExpectedLogBook(members) ==
    sort_logbook(CollectAll(EmptyLogBook, ScannedMembers(members)))

\* C8: the step that meets a nested .zip member which fails to open goes on
\* to the next top-level member with the LogBook, the size and the cell
\* untouched; the task never ends at such a member, and a Done result holds
\* the entries of all the other members.
C8_NestedOpenFailureSkipped ==
    /\ [][(/\ pc = "outer" /\ i < size
           /\ BadNestedZip(outer_file)
           /\ <<pc, i>>' /= <<pc, i>>)
          => (/\ pc' = "outer" /\ i' = i + 1
              /\ logs' = logs /\ file_size' = file_size /\ state' = state)]_vars
    /\ []((pc \in {"panicked", "hung"} /\ data.ok /\ i < size)
            => ~BadNestedZip(outer_file))
    /\ []((pc = "done")
            => state.processed.logbook =
                 ExpectedLogBook(SelectSeq(data.members,
                                           LAMBDA m : ~BadNestedZip(m))))

\* Done reached over an archive whose nested .zip failed to open and whose
\* next member gave entries.
C8_Witness ==
    /\ pc = "done"
    /\ size = 2
    /\ BadNestedZip(data.members[1])
    /\ ScannedMembers(<<data.members[2]>>) /= <<>>
    /\ DOMAIN state.processed.logbook /= {}

\* C9: a member that cannot be read, top-level or nested, is skipped: the
\* step that meets it neither aborts nor blocks the run.
C9_UnreadableMemberSkipped ==
    [][(\/ (pc = "outer" /\ i < size /\ outer_file.fault /= "none")
        \/ (pc = "inner" /\ u < size_u /\ inner_file.fault /= "none"))
       => pc' \notin {"panicked", "hung"}]_vars

\* A line that matches a pattern and whose timestamp does not parse.
BadTimestampLine(line) ==
    line.fmt /= "other" /\ dateparser_parse(line.ts).tag = "Err"

\* C10: a line that matches a pattern but whose timestamp does not parse is
\* discarded: the scan of its member gives the entries of the other lines
\* and the run goes on.
C10_BadTimestampDiscarded ==
    [][(/\ pc = "outer" /\ i < size
        /\ outer_file.is_file /\ outer_file.fault = "none"
        /\ is_log(outer_file)
        /\ \E k \in 1..Len(outer_file.lines) : BadTimestampLine(outer_file.lines[k])
        /\ <<pc, i>>' /= <<pc, i>>)
       => (/\ pc' = "outer"
           /\ logs' = logbook_append(logs, get_service_name(outer_file.name),
                        process_log_file(SelectSeq(outer_file.lines,
                            LAMBDA l : ~BadTimestampLine(l))).entries))]_vars

\* C11: with a non-empty allow-list, the LogBook under construction, the
\* LogBook of the Done result and the one logs() returned hold no key that
\* is absent from the allow-list, for top-level and nested members alike.
C11_FilteringLaw ==
    allowed_services /= {} =>
        /\ DOMAIN logs \subseteq allowed_services
        /\ state.tag = "Done" => DOMAIN state.processed.logbook \subseteq allowed_services
        /\ (polled.op = "logs" /\ polled.result.tag = "Some")
             => DOMAIN polled.result.val \subseteq allowed_services

\* Done over an archive with an allowed nested archive that holds a scanned
\* member of a service which is not allowed, and one which is.
C11_Witness ==
    /\ state.tag = "Done"
    /\ allowed_services = {Seg("c", "")}
    /\ DOMAIN state.processed.logbook = {Seg("c", "")}
    /\ \E k \in 1..size :
         /\ data.members[k].zip.ok
         /\ \E m \in 1..Len(data.members[k].zip.members) :
              /\ get_service_name(data.members[k].zip.members[m].name) = Seg("r", "gz")
              /\ m > 1

\* Entries in non-decreasing timestamp order.
SortedByTimestamp(entries) ==
    \A a, b \in 1..Len(entries) :
        a < b => entries[a].timestamp <= entries[b].timestamp

\* C12: in every Done result, and in what processed() and logs() returned,
\* every bucket is in non-decreasing timestamp order, whatever the order of
\* lines and members and whether or not the entries came from a nested archive.
C12_SortingLaw ==
    /\ state.tag = "Done" =>
         \A key \in DOMAIN state.processed.logbook :
             SortedByTimestamp(state.processed.logbook[key])
    /\ (polled.op = "logs" /\ polled.result.tag = "Some") =>
         \A key \in DOMAIN polled.result.val : SortedByTimestamp(polled.result.val[key])
    /\ (polled.op = "processed" /\ polled.result.tag = "Some") =>
         \A key \in DOMAIN polled.result.val.logbook :
             SortedByTimestamp(polled.result.val.logbook[key])

\* A Done result whose bucket of a nested member was filled out of order.
C12_Witness ==
    /\ state.tag = "Done"
    /\ Seg("c", "") \in DOMAIN logs
    /\ ~SortedByTimestamp(logs[Seg("c", "")])
    /\ polled.op = "logs"
    /\ polled.result = Some(state.processed.logbook)

\* The entries the continuation law gives for the lines of one member: a
\* matching line starts an entry, a non-matching line is added to the last
\* entry's message after a newline, or dropped when there is no entry yet.
RECURSIVE LawEntries(_, _)
LawEntries(entries, lines) ==
    IF lines = <<>> THEN entries
    ELSE LET line == Head(lines)
             n == Len(entries)
             next == IF line.fmt /= "other"
                     THEN Append(entries, LogEntry_parse(line).val)
                     ELSE IF n = 0 THEN entries
                     ELSE [entries EXCEPT ![n].message = @ \o <<"\n", line.raw>>]
         IN LawEntries(next, Tail(lines))

\* A top-level .gz/.log member that reads and whose timestamps all parse.
CleanLogMember(file) ==
    /\ file.is_file
    /\ file.fault = "none"
    /\ file.size > 0
    /\ is_log(file)
    /\ \A k \in 1..Len(file.lines) : ~BadTimestampLine(file.lines[k])

\* C13: the scan of a member gives each entry the message of its line
\* followed by every non-matching line after it, in order, each preceded by
\* a newline, and makes no entry of those lines.
C13_ContinuationLaw ==
    [][(/\ pc = "outer" /\ i < size
        /\ CleanLogMember(outer_file)
        /\ i' = i + 1)
       => logs' = logbook_append(logs, get_service_name(outer_file.name),
                                 LawEntries(<<>>, outer_file.lines))]_vars

NumMatching(lines) == Cardinality({k \in 1..Len(lines) : lines[k].fmt /= "other"})

BucketLen(book, key) == IF key \in DOMAIN book THEN Len(book[key]) ELSE 0

\* C14: the scan of a member leaves the entries already in the LogBook as
\* they are (its leading non-matching lines are not added to the last entry
\* of an earlier member of the service) and adds one entry per matching
\* line of the member, none for a non-matching one.
C14_LeadingContinuationDropped ==
    [][(/\ pc = "outer" /\ i < size
        /\ CleanLogMember(outer_file)
        /\ i' = i + 1)
       => LET service_name == get_service_name(outer_file.name) IN
          /\ \A key \in DOMAIN logs :
               /\ key \in DOMAIN logs'
               /\ SubSeq(logs'[key], 1, Len(logs[key])) = logs[key]
          /\ BucketLen(logs', service_name)
               = BucketLen(logs, service_name) + NumMatching(outer_file.lines)]_vars

\* A member that begins with a non-matching line has been scanned after a
\* member of the same service that left entries.
C14_Witness ==
    /\ pc = "outer"
    /\ i = 2
    /\ data.members[2].lines /= <<>>
    /\ data.members[2].lines[1].fmt = "other"
    /\ get_service_name(data.members[1].name) = get_service_name(data.members[2].name)
    /\ Len(logs[get_service_name(data.members[2].name)]) = 4
    /\ state.tag = "Processing"
    /\ state.info.file = data.members[2].name

to_ascii_uppercase(c) ==
    CASE c = "a" -> "A" [] c = "b" -> "B" [] c = "c" -> "C" [] c = "d" -> "D"
      [] c = "e" -> "E" [] c = "f" -> "F" [] c = "g" -> "G" [] c = "i" -> "I"
      [] c = "n" -> "N" [] c = "o" -> "O" [] c = "r" -> "R" [] c = "t" -> "T"
      [] c = "u" -> "U" [] c = "w" -> "W" [] OTHER -> c

\* The level a token names once trimmed and put in upper case.
LevelNamed(token) ==
    LET t == trim(token)
        upper == [k \in 1..Len(t) |-> to_ascii_uppercase(t[k])] IN
    CASE upper = <<"E", "R", "R", "O", "R">> -> "Error"
      [] upper \in {<<"W", "A", "R", "N">>, <<"W", "A", "R", "N", "I", "N", "G">>} -> "Warn"
      [] upper = <<"I", "N", "F", "O">> -> "Info"
      [] upper = <<"D", "E", "B", "U", "G">> -> "Debug"
      [] upper = <<"T", "R", "A", "C", "E">> -> "Trace"
      [] OTHER -> "Unknown"

\* C15: LogLevel::from_str gives, for every token that spells ERROR, WARN,
\* WARNING, INFO, DEBUG or TRACE in any letter case once trimmed, the level
\* of that name (Warn for WARN and WARNING), and Unknown for any other token.
C15_CaseInsensitiveLevels ==
    ret.tag = "Some" => ret.val = LevelNamed(arg.val)

\* The entries parsed from the members of `files` whose service is
\* `service_name`, in processing order.
RECURSIVE EntriesOf(_, _)
EntriesOf(files, service_name) ==
    IF files = <<>> THEN <<>>
    ELSE (IF get_service_name(Head(files).name) = service_name
          THEN process_log_file(Head(files).lines).entries ELSE <<>>)
         \o EntriesOf(Tail(files), service_name)

Occurrences(entries, e) == Cardinality({k \in 1..Len(entries) : entries[k] = e})

\* Two lists that hold the same entries the same number of times.
SameEntries(left, right) ==
    /\ Len(left) = Len(right)
    /\ \A k \in 1..Len(left) : Occurrences(left, left[k]) = Occurrences(right, left[k])

\* The LogBook `book` holds, for the line-scanned members `files`, one
\* bucket per service of a member and in it each entry of those members once.
Aggregates(book, files) ==
    /\ DOMAIN book = {get_service_name(files[k].name) : k \in 1..Len(files)}
    /\ \A key \in DOMAIN book : SameEntries(book[key], EntriesOf(files, key))

\* C16: between top-level members the LogBook under construction holds, for
\* each service, exactly the entries of the members scanned so far (top-level
\* and nested), each once, with a bucket as soon as a member of the service
\* has been scanned; the Done LogBook holds those of all scanned members.
C16_Aggregation ==
    /\ pc = "outer" => Aggregates(logs, ScannedMembers(SubSeq(data.members, 1, i)))
    /\ pc = "done" => Aggregates(state.processed.logbook, ScannedMembers(data.members))

\* Done over two scanned members of one service, one of them nested.
C16_Witness ==
    /\ pc = "done"
    /\ size = 2
    /\ data.members[1].zip.ok
    /\ Len(ScannedMembers(data.members)) = 3
    /\ Len(state.processed.logbook[Seg("c", "")]) = 2
    /\ DOMAIN state.processed.logbook = {Seg("c", ""), Seg("a", ""), Seg("r", "gz")}

\* The service of a member path by the rule of the specification: the
\* parent directory's segment, or the only segment.
ParentOrOnly(path) ==
    IF Len(path) = 1 THEN path[1] ELSE path[Len(path) - 1]

\* C17: the service name of every published snapshot is the second-to-last
\* segment of its file's path, or the only segment of a one-segment path,
\* for top-level and nested members alike; the buckets of the LogBook are
\* keyed by the names so derived from the scanned members.
C17_ServiceNameDerivation ==
    /\ state.tag = "Processing"
         => state.info.service_name = ParentOrOnly(state.info.file)
    /\ pc = "done"
         => DOMAIN state.processed.logbook =
              {ParentOrOnly(m.name) : m \in
                 {ScannedMembers(data.members)[k] :
                    k \in 1..Len(ScannedMembers(data.members))}}

\* The snapshot of a nested member with a one-segment path, published after
\* that of a nested member in a directory.
C17_Witness ==
    /\ state.tag = "Processing"
    /\ pc = "outer"
    /\ i = 1
    /\ Len(state.info.file) = 1
    /\ state.info.service_name = Seg("r", "gz")
    /\ DOMAIN logs = {Seg("c", ""), Seg("r", "gz")}

HasLogSuffix(path) == path[Len(path)].ext \in {"gz", "log"}

\* The services of the members that may contribute: .gz/.log members of the
\* top-level archive and of the archives that are its .zip members.
ContributorServices(members) ==
    {ParentOrOnly(members[k].name) :
        k \in {n \in 1..Len(members) : HasLogSuffix(members[n].name)}}
    \cup UNION {
        {ParentOrOnly(members[k].zip.members[m].name) :
            m \in {n \in 1..Len(members[k].zip.members) :
                     HasLogSuffix(members[k].zip.members[n].name)}} :
        k \in {n \in 1..Len(members) : members[n].name[Len(members[n].name)].ext = "zip"}}

\* C18: the LogBook changes only at a top-level .gz/.log member or at a
\* .gz/.log member of a top-level .zip member; at a .zip member of a nested
\* archive and at a member with any other suffix the LogBook, the size and
\* the published state are left alone; no bucket is keyed by a member that
\* is not of these kinds.
C18_SuffixDispatch ==
    [][ /\ logs' /= logs
          => \/ pc = "outer" /\ i < size /\ HasLogSuffix(outer_file.name)
             \/ /\ pc = "inner" /\ u < size_u
                /\ outer_file.name[Len(outer_file.name)].ext = "zip"
                /\ HasLogSuffix(inner_file.name)
        /\ (pc = "inner" /\ u < size_u /\ ~HasLogSuffix(inner_file.name)
            /\ pc' \in {"inner", "outer"} /\ <<i, u>>' /= <<i, u>>)
          => /\ logs' = logs
             /\ file_size' = file_size
             /\ state' = state
        /\ (pc = "outer" /\ i < size /\ i' = i + 1 /\ outer_file.size > 0
            /\ ~HasLogSuffix(outer_file.name))
          => logs' = logs /\ file_size' = file_size /\ state' = state
        /\ DOMAIN logs' \subseteq ContributorServices(data'.members)
      ]_vars

\* Done after a nested archive whose second member is an archive that opens:
\* the first member's bucket is there, the deeper log's is not.
C18_Witness ==
    /\ pc = "done"
    /\ size = 2
    /\ data.members[1].zip.ok
    /\ Len(data.members[1].zip.members) = 2
    /\ data.members[1].zip.members[2].zip.ok
    /\ data.members[2].name = <<Seg("n", "txt")>>
    /\ DOMAIN state.processed.logbook = {Seg("c", "")}
    /\ Len(state.processed.logbook[Seg("c", "")]) = 2

\* The step leaves the top-level member at index i behind.
PastOuterMember == pc \in {"outer", "inner"} /\ i < size /\ i' = i + 1

\* The step leaves the nested member at index u behind.
PastInnerMember ==
    /\ pc = "inner"
    /\ u < size_u
    /\ pc' \in {"inner", "outer"}
    /\ <<i, u>>' /= <<i, u>>

Publishes(name) == state'.tag = "Processing" /\ state'.info.file = name

\* C19 as stated: the step that leaves a file member behind, top-level or
\* nested, publishes a Processing snapshot naming that member.
C19_EveryFileMemberPublished ==
    [][ /\ (PastOuterMember /\ outer_file.is_file) => Publishes(outer_file.name)
        /\ (PastInnerMember /\ inner_file.is_file) => Publishes(inner_file.name)
      ]_vars

\* The members whose handling ends in a snapshot: a top-level file that is
\* empty or a .gz/.log, and a non-empty nested .gz/.log file.
OuterPublishing(file) ==
    file.is_file /\ (file.size = 0 \/ HasLogSuffix(file.name))
InnerPublishing(file) ==
    file.is_file /\ file.size > 0 /\ HasLogSuffix(file.name)

\* C19 amended: the step that leaves behind a top-level file that is empty
\* or a .gz/.log, or a non-empty nested .gz/.log file, publishes a Processing
\* snapshot naming that member; the step that leaves behind any other member
\* (a directory, a non-empty top-level file of another suffix, a top-level
\* .zip that does not open or has no members, an empty nested file, a nested
\* file of another suffix) publishes nothing, and no snapshot names a
\* top-level .zip member whose nested members have been walked.
C19_ScannedMemberPublished ==
    [][ /\ (pc = "outer" /\ PastOuterMember)
          => IF OuterPublishing(outer_file)
             THEN Publishes(outer_file.name)
             ELSE state' = state
        /\ (pc = "inner" /\ PastOuterMember) => ~Publishes(outer_file.name)
        /\ PastInnerMember
          => IF InnerPublishing(inner_file)
             THEN Publishes(inner_file.name)
             ELSE state' = state
      ]_vars

\* The snapshot of the first member of a nested archive, published before
\* its second member is handled, the top-level member before the archive
\* being an empty file.
C19_Witness ==
    /\ pc = "inner"
    /\ i = 1
    /\ u = 1
    /\ data.members[1].size = 0
    /\ data.members[1].is_file
    /\ state.tag = "Processing"
    /\ state.info.file = <<Seg("c", ""), Seg("d", "log")>>

\* The fraction p equals num / den.
PctEquals(p, num, den) == p.den > 0 /\ den > 0 /\ p.num * den = num * p.den

\* C20: a snapshot published at top-level index i of size members has
\* percentage 100 * i / size; one published at index u of the size_u members
\* of the nested archive at top-level index i has 100 * (i + u / size_u) /
\* size; every published percentage lies in [0, 100].
C20_PercentageFormula ==
    [][ (state' /= state /\ state'.tag = "Processing")
          => /\ pc = "outer"
                  => PctEquals(state'.info.percentage, 100 * i, size)
             /\ pc = "inner"
                  => PctEquals(state'.info.percentage,
                               100 * (i * size_u + u), size_u * size)
             /\ pc \in {"outer", "inner"}
             /\ PctLeq(Percentage(0, 1), state'.info.percentage)
             /\ PctLeq(state'.info.percentage, Percentage(100, 1))
      ]_vars

\* The snapshot of the second of two nested members of the second of two
\* top-level members: 100 * (1 + 1/2) / 2 = 75.
C20_Witness ==
    /\ state.tag = "Processing"
    /\ size = 2
    /\ pc = "outer"
    /\ i = 2
    /\ data.members[2].zip.ok
    /\ Len(data.members[2].zip.members) = 2
    /\ PctEquals(state.info.percentage, 75, 1)

\* The sum of the lengths of the lines of a member.
RECURSIVE LineBytes(_)
LineBytes(lines) ==
    IF lines = <<>> THEN 0 ELSE Head(lines).len + LineBytes(Tail(lines))

\* The publications of the nested archive `zip` at top-level position k of n:
\* for each publishing member its name, the bytes it adds and the
\* percentage of its snapshot.
InnerPublications(zip, k, n) ==
    LET count == Len(zip.members)
        all == [m \in 1..count |->
                  [name |-> zip.members[m].name,
                   bytes |-> LineBytes(zip.members[m].lines),
                   pct |-> Percentage(100 * ((k - 1) * count + (m - 1)), count * n),
                   publishing |-> InnerPublishing(zip.members[m])]]
    IN SelectSeq(all, LAMBDA x : x.publishing)

\* The publications of members k.. of the top-level archive, in order.
RECURSIVE Publications(_, _)
Publications(members, k) ==
    IF k > Len(members) THEN <<>>
    ELSE LET file == members[k]
             n == Len(members)
             own == [name |-> file.name,
                     bytes |-> IF file.size = 0 THEN 0 ELSE LineBytes(file.lines),
                     pct |-> Percentage(100 * (k - 1), n),
                     publishing |-> TRUE]
         IN (IF OuterPublishing(file) THEN <<own>>
             ELSE IF file.is_file /\ file.name[Len(file.name)].ext = "zip" /\ file.zip.ok
                  THEN InnerPublications(file.zip, k, n)
             ELSE <<>>)
            \o Publications(members, k + 1)

RECURSIVE BytesUpTo(_, _)
BytesUpTo(pubs, k) == IF k = 0 THEN 0 ELSE pubs[k].bytes + BytesUpTo(pubs, k - 1)

\* The Info `info` is the k-th whole snapshot of a run over `members`.
IsSnapshot(info, members, k) ==
    LET pubs == Publications(members, 1) IN
    /\ info.file = pubs[k].name
    /\ info.service_name = ParentOrOnly(pubs[k].name)
    /\ PctEquals(info.percentage, pubs[k].pct.num, pubs[k].pct.den)
    /\ info.size = BytesUpTo(pubs, k)

WholeSnapshot(info, members) ==
    \E k \in 1..Len(Publications(members, 1)) : IsSnapshot(info, members, k)

\* C21: whatever the interleaving of the task's writes and the caller's
\* polls, the Info that info() returned is one snapshot of the run whole
\* (file, service name, percentage and size of the same publication), the
\* same holds of the cell, and the Processed that processed() returned is the
\* Done value in the cell.
C21_SnapshotConsistency ==
    /\ state.tag = "Processing" => WholeSnapshot(state.info, data.members)
    /\ (polled.op = "info" /\ polled.result.tag = "Some")
         => WholeSnapshot(polled.result.val, data.members)
    /\ (polled.op = "processed" /\ polled.result.tag = "Some")
         => state.tag = "Done" /\ polled.result.val = state.processed

\* A poll of info() answered with the snapshot of a nested member, two
\* writes before the one now in the cell.
C21_Witness ==
    /\ polled.op = "info"
    /\ polled.result.tag = "Some"
    /\ state.tag = "Processing"
    /\ Len(Publications(data.members, 1)) = 3
    /\ IsSnapshot(polled.result.val, data.members, 1)
    /\ IsSnapshot(state.info, data.members, 3)
    /\ polled.result.val.file = <<Seg("c", ""), Seg("d", "log")>>

\* Every entry of the last line-scanned member of `members` is in the
\* bucket of its service in `book`.
HoldsLastMember(book, members) ==
    LET files == ScannedMembers(members) IN
    files /= <<>> =>
        LET last == files[Len(files)]
            entries == process_log_file(last.lines).entries
        IN /\ ParentOrOnly(last.name) \in DOMAIN book
           /\ \A k \in 1..Len(entries) :
                \E n \in 1..Len(book[ParentOrOnly(last.name)]) :
                    book[ParentOrOnly(last.name)][n] = entries[k]

\* C22: Done is written when the outer loop has left its last index and is
\* never written again; the indices are visited one by one, the outer loop
\* resuming after a nested archive only past its last index; so the LogBook
\* of Done holds the entries of the last member scanned.
C22_DoneOnceAfterAllMembers ==
    [][ /\ (state'.tag = "Done" /\ state' /= state)
          => /\ state.tag /= "Done"
             /\ pc = "outer"
             /\ i = size
             /\ HoldsLastMember(state'.processed.logbook, data.members)
        /\ state.tag = "Done" => state' = state
        /\ pc \in {"outer", "inner"} => i' \in {i, i + 1}
        /\ (pc = "inner" /\ pc' = "inner") => u' \in {u, u + 1}
        /\ (pc = "inner" /\ pc' = "outer") => u + 1 = size_u /\ i' = i + 1
        /\ (pc = "outer" /\ pc' = "inner") => u' = 0 /\ i' = i
      ]_vars

\* Done after a run whose last top-level member is a nested archive of two
\* members, the second scanned.
C22_Witness ==
    /\ pc = "done"
    /\ state.tag = "Done"
    /\ size = 2
    /\ data.members[2].zip.ok
    /\ Len(data.members[2].zip.members) = 2
    /\ data.members[2].zip.members[2].name = <<Seg("c", ""), Seg("d", "log")>>
    /\ Len(state.processed.logbook[Seg("c", "")]) = 2

\* C23: once a run has started, a step that changes the cell is a step of
\* the spawned task (it is in one of its loops and the caller's last poll is
\* untouched); a step in which info(), processed() or logs() returns leaves
\* the cell and the task's variables as they were, whatever the cell holds.
C23_OnlyTaskWrites ==
    [][ /\ (pc /= "init" /\ state' /= state)
          => pc \in {"outer", "inner"} /\ polled' = polled
        /\ polled' /= polled
          => /\ state' = state
             /\ <<data, pc, i, u, logs, file_size>>' = <<data, pc, i, u, logs, file_size>>
      ]_vars

\* logs() has returned the LogBook of a Done cell.
C23_Witness ==
    /\ state.tag = "Done"
    /\ polled.op = "logs"
    /\ polled.result = Some(state.processed.logbook)
    /\ Seg("b", "") \in DOMAIN state.processed.logbook

\* The place of entries[j] after a stable sort by timestamp: behind the
\* entries of an earlier timestamp and the earlier entries of its own.
Rank(entries, j) ==
    Cardinality({m \in 1..Len(entries) : entries[m].timestamp < entries[j].timestamp})
    + Cardinality({m \in 1..j : entries[m].timestamp = entries[j].timestamp})

\* C24: in a Done result every bucket is its service's entries, taken member
\* by member in processing order and line by line within a member, moved
\* only as far as the timestamps require: entries of one timestamp keep
\* that order.
C24_StableSort ==
    pc = "done" =>
        \A key \in DOMAIN state.processed.logbook :
            LET sorted == state.processed.logbook[key]
                entries == EntriesOf(ScannedMembers(data.members), key)
            IN /\ Len(sorted) = Len(entries)
               /\ \A j \in 1..Len(entries) : sorted[Rank(entries, j)] = entries[j]

\* Three entries of one timestamp in one bucket: two of the first member in
\* their in-file order, then one of the second member.
C24_Witness ==
    /\ pc = "done"
    /\ size = 2
    /\ data.members[1].name = <<Seg("a", ""), Seg("x", "log")>>
    /\ data.members[2].name = <<Seg("a", ""), Seg("y", "gz")>>
    /\ Len(state.processed.logbook[Seg("a", "")]) = 4
    /\ state.processed.logbook[Seg("a", "")][1].message = <<"tie">>
    /\ state.processed.logbook[Seg("a", "")][2].message = <<"one">>
    /\ state.processed.logbook[Seg("a", "")][3].timestamp
         = state.processed.logbook[Seg("a", "")][1].timestamp
    /\ Len(state.processed.logbook[Seg("a", "")][3].message) = 3

\* The bytes of the contents of the members `files`: their lines with the
\* line terminators.
RECURSIVE ContentBytes(_)
ContentBytes(files) ==
    IF files = <<>> THEN 0
    ELSE byte_size(Head(files).lines) + ContentBytes(Tail(files))

\* C27: between top-level members the cumulative size is the number of
\* bytes of the contents of the members line-scanned so far; a snapshot
\* carries the cumulative size of the moment it is published; the size never
\* decreases from one snapshot to the next; the size of Done is the number
\* of bytes of the contents of all line-scanned members.
C27_CumulativeSize ==
    /\ [](pc = "outer"
            => file_size = ContentBytes(ScannedMembers(SubSeq(data.members, 1, i))))
    /\ [](pc = "done"
            => state.processed.size = ContentBytes(ScannedMembers(data.members)))
    /\ [][ /\ (state' /= state /\ state'.tag = "Processing")
             => state'.info.size = file_size'
           /\ (state.tag = "Processing" /\ state'.tag = "Processing")
             => state.info.size <= state'.info.size
         ]_vars

\* C26: Worker::process called on a cell holding None leaves it holding
\* Processing with the file, percentage 0 and size 0; called on a cell
\* holding Processing or Done it leaves the cell as it was; the task's
\* variables are not touched.
C26_ProcessOnlyFromIdle ==
    [][ arg' /= arg
          => /\ IF state.tag = "None"
                THEN /\ state'.tag = "Processing"
                     /\ PctEquals(state'.info.percentage, 0, 1)
                     /\ state'.info.size = 0
                     /\ state'.info.file = arg'.val
                ELSE state' = state
             /\ <<data, pc, i, u, logs, file_size>>' = <<data, pc, i, u, logs, file_size>>
      ]_vars

\* Worker::process has been called on the None cell of a Worker whose task
\* has not written yet: the cell holds the zero-progress snapshot.
C26_Witness ==
    /\ arg.tag = "Some"
    /\ pc = "spawned"
    /\ data.ok
    /\ state.tag = "Processing"
    /\ state.info.file = arg.val
    /\ state.info.size = 0
    /\ state.info.service_name = Seg("a", "")

\* C25: for a line that is a parsable timestamp, a delimiter, a level name,
\* a delimiter and a message (a pipe with optional whitespace around it in
\* the general layout, whitespace in the detailed one), LogEntry::parse gives
\* an entry whose level is the parse of the level name and whose message is
\* the message, whatever pipes and whitespace the message holds.
C25_MessageAfterDelimiter ==
    ret.tag = "Some" =>
        /\ \A first \in GeneralDelimiters, level \in ParseLevels,
              second \in GeneralDelimiters, message \in Messages :
              arg.val.text = first \o level \o second \o message
                => /\ ret.val.tag = "Some"
                   /\ ret.val.val.level = LogLevel_from_str(level)
                   /\ ret.val.val.message = <<message>>
        /\ \A first \in DetailedDelimiters, level \in ParseLevels,
              second \in DetailedDelimiters, message \in Messages :
              (arg.val.zulu /\ arg.val.text = first \o level \o second \o message)
                => /\ ret.val.tag = "Some"
                   /\ ret.val.val.level = LogLevel_from_str(level)
                   /\ ret.val.val.message = <<message>>

RECURSIVE LineBytes_all(_)
LineBytes_all(files) ==
    IF files = <<>> THEN 0
    ELSE LineBytes(Head(files).lines) + LineBytes_all(Tail(files))

\* The cell holds nothing, a snapshot of a run over `d`, or its result.
OwnValue(cell, d) ==
    CASE cell.tag = "Processing" -> WholeSnapshot(cell.info, d.members)
      [] cell.tag = "Done" ->
            /\ cell.processed.logbook = ExpectedLogBook(d.members)
            /\ cell.processed.size = LineBytes_all(ScannedMembers(d.members))
      [] OTHER -> TRUE

\* C28: with a second run started while or after the first one's task runs,
\* the cell of each run's Worker holds only what a run over that run's own
\* buffer writes, and so does what update polled from the Worker it held;
\* the call that starts a run leaves the tasks of the earlier runs where
\* they were, a step of one task leaves the other tasks and cells alone, and
\* a task that reaches the end of its loop publishes the result of its own
\* buffer.
C28_RunIsolation ==
    /\ [](\A w \in Runs : OwnValue(TaskOf(w).state, TaskOf(w).data))
    /\ [](polled.op = "update" /\ polled.worker \in Runs
            => /\ polled.info.tag = "Some"
                    => WholeSnapshot(polled.info.val, TaskOf(polled.worker).data.members)
               /\ polled.result.tag = "Some"
                    => polled.result.val.logbook
                         = ExpectedLogBook(TaskOf(polled.worker).data.members))
    /\ [][ /\ \A w \in Runs :
                run' \notin Runs => TaskOf(w)' = TaskOf(w)
           /\ \A w \in Runs :
                (w \in Runs' /\ TaskOf(w)' /= TaskOf(w))
                  => /\ w = run
                     /\ \A v \in Runs \ {w} : TaskOf(v)' = TaskOf(v)
         ]_vars

\* Both runs are Done, each with the result of its own buffer; the second
\* was started while the first task was in its loop.
C28_Witness ==
    /\ Runs = {1, 2}
    /\ TaskOf(1).pc = "done"
    /\ TaskOf(2).pc = "done"
    /\ TaskOf(1).data /= TaskOf(2).data
    /\ DOMAIN TaskOf(1).state.processed.logbook = {Seg("a", "")}
    /\ DOMAIN TaskOf(2).state.processed.logbook = {Seg("c", "")}
    /\ polled.op = "update"
    /\ polled.worker = 2
    /\ polled.info.tag = "Some"

\* The first run is Done with a LogBook that is not empty.
FirstRunCompleted ==
    /\ 1 \in Runs
    /\ TaskOf(1).state.tag = "Done"
    /\ TaskOf(1).state.processed.logbook /= EmptyLogBook

\* C29: with the first run Done and its LogBook not empty, the frame in
\* which "Select a file" is clicked leaves the held result cleared and
\* is_processing true; once the app holds a later Worker the held result
\* changes only to that Worker's Done value, and is_processing is false only
\* when the held result is that value.
C29_SecondRunAdopted ==
    [][ /\ (FirstRunCompleted /\ ~app.open_model /\ app'.open_model)
          => app'.logs = DefaultProcessed /\ app'.is_processing
        /\ \A w \in 2..MaxRuns :
             (app'.worker = w /\ app'.logs /= app.logs)
               => \/ app'.logs = DefaultProcessed
                  \/ Worker_processed(Worker_state(w))' = Some(app'.logs)
        /\ \A w \in 2..MaxRuns :
             (FirstRunCompleted /\ app'.worker = w /\ ~app'.is_processing)
               => Worker_processed(Worker_state(w))' = Some(app'.logs)
      ]_vars

====
